---- MODULE Spec2Model ----
(***************************************************************************)
(* A model of the PDF translation pipeline of translate_cmd.py: the        *)
(* translation cache of TextTranslator, block extraction, text             *)
(* classification, font resolution, the fit-to-box loop, the              *)
(* translate_pdf driver, its output file name and analyze_pdf.             *)
(*                                                                         *)
(* Texts are sequences of characters.  Font sizes are exact rationals      *)
(* [num, den] because extract_blocks averages span sizes.                  *)
(***************************************************************************)
EXTENDS Integers, Sequences, FiniteSets, TLC

VARIABLES
    \* ---- sanitize_text applied to one text
    san_text, san_result,
    \* ---- extract_blocks applied to one page
    ex_page, ex_result,
    \* ---- get_usable_fonts and the font resolution of translate_pdf
    default_font_path, usable_fonts, default_font_name, font_block, font_choice,
    \* ---- insert_text_block: the fit loop, and what was drawn for the block
    fit_pc, fit_kwargs, fontsize, start_fontsize, attempts, rendered, last_render,
    diag, drawn,
    \* ---- TextTranslator: the cache and its store
    translator_cache_file, store_open, translation_cache, durable_store,
    close_calls, last_call, written_on_page, call_log,
    \* ---- translate_pdf
    pc, translator_name, translator, keep_original, ocgs, num_pages, page_index,
    blocks, block, translated, sync_calls, saved, exc,
    \* ---- the process environment as the translator's constructor read it
    environ,
    \* ---- analyze_pdf
    token_target, totals, analyzed,
    \* ---- the output file name of translate_pdf
    input_file, target_lang, output_file,
    \* ---- OrganizePdfDialog: the page items, the listbox and the drag in progress
    page_items, page_listbox, main_document, drag_start_index, drag_preview_index,
    last_move

vars == << san_text, san_result, ex_page, ex_result,
           default_font_path, usable_fonts, default_font_name, font_block, font_choice,
           fit_pc, fit_kwargs, fontsize, start_fontsize, attempts, rendered, last_render,
           diag, drawn,
           translator_cache_file, store_open, translation_cache, durable_store,
           close_calls, last_call, written_on_page, call_log,
           pc, translator_name, translator, keep_original, ocgs, num_pages, page_index,
           blocks, block, translated, sync_calls, saved, exc,
           environ, token_target, totals, analyzed, input_file, target_lang, output_file,
           page_items, page_listbox, main_document, drag_start_index, drag_preview_index,
           last_move >>

sanVars == << san_text, san_result >>
exVars == << ex_page, ex_result >>
fontVars == << default_font_path, usable_fonts, default_font_name, font_block, font_choice >>
fitVars == << fit_pc, fit_kwargs, fontsize, start_fontsize, attempts, rendered, last_render,
              diag, drawn >>
cacheVars == << translator_cache_file, store_open, translation_cache, durable_store,
                close_calls, last_call, written_on_page, call_log >>
pdfVars == << pc, translator_name, translator, keep_original, ocgs, num_pages, page_index,
              blocks, block, translated, sync_calls, saved, exc >>

anVars == << token_target, totals, analyzed >>
nameVars == << input_file, target_lang, output_file >>
dlgVars == << page_items, page_listbox, main_document, drag_start_index,
             drag_preview_index, last_move >>

None == "None"

(***************************************************************************)
(* Bounds of the model.                                                    *)
(***************************************************************************)
MaxLen == 3          \* length of the texts given to sanitize_text
MaxLines == 2        \* lines of a raw text block
MaxStartSize == 5    \* numerator bound of a starting font size
MaxDen == 3          \* denominator bound of a starting font size
MaxPages == 2        \* pages of a document
MaxBlocks == 2       \* raw blocks of a page
MaxPathLen == 3      \* elements of an input path
MaxItems == 3        \* pages loaded into the organizer dialog
MaxDocPages == 2     \* pages of a document loaded into the dialog

(***************************************************************************)
(* Characters and Python's str methods.                                    *)
(***************************************************************************)
LF == "LF"
CR == "CR"
SP == " "
Digits == {"1"}
Whitespace == {SP, LF, CR}

RECURSIVE str_replace_crlf(_)
\* text.replace('\r\n', '\n'): left to right, non-overlapping
str_replace_crlf(s) ==
    IF s = << >> THEN << >>
    ELSE IF Len(s) >= 2 /\ s[1] = CR /\ s[2] = LF
         THEN <<LF>> \o str_replace_crlf(SubSeq(s, 3, Len(s)))
         ELSE <<s[1]>> \o str_replace_crlf(Tail(s))

\* text.replace(c, d) for single characters
str_replace_char(s, c, d) == [i \in 1..Len(s) |-> IF s[i] = c THEN d ELSE s[i]]

RECURSIVE str_remove_char(_, _)
\* text.replace(c, '')
str_remove_char(s, c) ==
    IF s = << >> THEN << >>
    ELSE IF s[1] = c THEN str_remove_char(Tail(s), c)
         ELSE <<s[1]>> \o str_remove_char(Tail(s), c)

\* str.isdigit(): non-empty and every character a digit
str_isdigit(s) == Len(s) > 0 /\ \A i \in 1..Len(s) : s[i] \in Digits

RECURSIVE str_lstrip(_)
str_lstrip(s) ==
    IF s # << >> /\ s[1] \in Whitespace THEN str_lstrip(Tail(s)) ELSE s

RECURSIVE str_rstrip(_)
str_rstrip(s) ==
    IF s # << >> /\ s[Len(s)] \in Whitespace
    THEN str_rstrip(SubSeq(s, 1, Len(s) - 1)) ELSE s

str_strip(s) == str_rstrip(str_lstrip(s))

str_lower(s) == [i \in 1..Len(s) |-> IF s[i] = "A" THEN "a" ELSE s[i]]

str_endswith_lf(s) == s # << >> /\ s[Len(s)] = LF

(***************************************************************************)
(* sanitize_text, prepare_pdf_text, is_valid_translation.                  *)
(***************************************************************************)
\* the text the translatability check reads: the parameter, not the result
sanitize_checked_text(text, result) == text

sanitize_text(text) ==
    LET result == str_replace_char(str_replace_crlf(text), CR, LF)
        checked == sanitize_checked_text(text, result)
    IN  [text |-> result,
         is_valid_text |-> ~ str_isdigit(str_remove_char(str_remove_char(checked, LF), SP))]

prepare_pdf_text(text, translation) ==
    IF str_endswith_lf(translation) /\ ~ str_endswith_lf(text)
    THEN str_rstrip(translation)
    ELSE IF ~ str_endswith_lf(translation) /\ str_endswith_lf(text)
         THEN translation \o <<LF>>
         ELSE translation

\* a validation that accepts every translation
is_valid_translation_any(text, translation) == TRUE

is_valid_translation(text, translation) ==
    str_lower(str_strip(text)) # str_lower(str_strip(translation))

(***************************************************************************)
(* extract_blocks.  A raw block of page.get_text("dict") is                *)
(*   [has_lines, bbox, lines], a line [dir, spans], a span                 *)
(*   [text, size, font].  A direction is a pair of components in tenths    *)
(* (10 is 1.0); a line without 'dir' has NoDir.  An optional number is a   *)
(* sequence of length 0 (None) or 1.                                       *)
(***************************************************************************)
NoDir == << >>

\* round() of a number given in tenths: to nearest, ties to even
py_round(t) ==
    LET q == t \div 10
        r == t % 10
    IN  IF r < 5 THEN q
        ELSE IF r > 5 THEN q + 1
        ELSE IF q % 2 = 0 THEN q ELSE q + 1

round_dir(d) == << py_round(d[1]), py_round(d[2]) >>

RECURSIVE collect_rotations(_, _)
\* the list rotations after the lines: rounded directions, first occurrence kept
collect_rotations(lines, rotations) ==
    IF lines = << >> THEN rotations
    ELSE LET line == lines[1]
             rotation == round_dir(line.dir)
         IN  IF line.dir # NoDir /\ ~ \E i \in 1..Len(rotations) : rotations[i] = rotation
             THEN collect_rotations(Tail(lines), Append(rotations, rotation))
             ELSE collect_rotations(Tail(lines), rotations)

RECURSIVE concat_spans(_)
\* all spans of the lines, in order
concat_spans(lines) ==
    IF lines = << >> THEN << >> ELSE lines[1].spans \o concat_spans(Tail(lines))

RECURSIVE join_text(_)
join_text(spans) ==
    IF spans = << >> THEN << >> ELSE spans[1].text \o join_text(Tail(spans))

RECURSIVE sum_sizes(_)
sum_sizes(spans) ==
    IF spans = << >> THEN 0 ELSE spans[1].size + sum_sizes(Tail(spans))

\* sum(font_sizes) / len(font_sizes) if font_sizes else 0, as an exact rational
avg_font_size(spans) ==
    IF spans = << >> THEN [num |-> 0, den |-> 1]
    ELSE [num |-> sum_sizes(spans), den |-> Len(spans)]

font_count(spans, f) == Cardinality({i \in 1..Len(spans) : spans[i].font = f})

first_index(spans, f) == CHOOSE i \in 1..Len(spans) :
    spans[i].font = f /\ \A j \in 1..(i - 1) : spans[j].font # f

\* Counter(fonts).most_common(1)[0][0] if fonts else None: ties go to the first seen
most_common_font(spans) ==
    IF spans = << >> THEN None
    ELSE LET fonts == {spans[i].font : i \in 1..Len(spans)}
         IN  CHOOSE f \in fonts : \A g \in fonts \ {f} :
                 \/ font_count(spans, f) > font_count(spans, g)
                 \/ /\ font_count(spans, f) = font_count(spans, g)
                    /\ first_index(spans, f) < first_index(spans, g)

\* math.degrees(math.atan2(-1 * y, x)) on the rounded directions
rotation_degrees(d) ==
    CASE d = << 1, 0 >>   -> 0
      [] d = << 0, 0 >>   -> 0
      [] d = << 0, 1 >>   -> -90
      [] d = << 0, -1 >>  -> 90
      [] d = << -1, 0 >>  -> 180
      [] d = << 1, 1 >>   -> -45
      [] d = << 1, -1 >>  -> 45
      [] d = << -1, 1 >>  -> -135
      [] d = << -1, -1 >> -> 135

\* the rotation assertion placed before the blank-text test
blank_skipped_last == FALSE

\* whether the blank-text test precedes the rotation assertion
blank_skipped_first == TRUE

\* one raw block: "skip", "raise" (the assertion) or "append"
block_outcome(raw) ==
    LET spans == concat_spans(raw.lines)
        rotations == collect_rotations(raw.lines, << >>)
        blank == str_strip(join_text(spans)) = << >>
    IN  IF ~ raw.has_lines THEN "skip"
        ELSE IF blank_skipped_first
             THEN IF blank THEN "skip"
                  ELSE IF Len(rotations) <= 1 THEN "append" ELSE "raise"
             ELSE IF Len(rotations) > 1 THEN "raise"
                  ELSE IF blank THEN "skip" ELSE "append"

extracted_block(raw) ==
    LET spans == concat_spans(raw.lines)
        rotations == collect_rotations(raw.lines, << >>)
    IN  [bbox |-> raw.bbox,
         text |-> join_text(spans),
         avg_font_size |-> avg_font_size(spans),
         common_font |-> most_common_font(spans),
         rotation |-> IF Len(rotations) = 1 THEN << rotation_degrees(rotations[1]) >>
                      ELSE << >>,
         dir |-> IF Len(rotations) = 1 THEN rotations[1] ELSE NoDir]

RECURSIVE extract_loop(_, _)
extract_loop(raws, acc) ==
    IF raws = << >> THEN [raised |-> None, blocks |-> acc]
    ELSE LET o == block_outcome(raws[1])
         IN  IF o = "raise" THEN [raised |-> "AssertionError", blocks |-> acc]
             ELSE IF o = "skip" THEN extract_loop(Tail(raws), acc)
             ELSE extract_loop(Tail(raws), Append(acc, extracted_block(raws[1])))

\* extract_blocks(page, text_flags) on the page's raw blocks
extract_blocks(raws) == extract_loop(raws, << >>)

(***************************************************************************)
(* get_usable_fonts and the font resolution of translate_pdf.  A font      *)
(* reference of a page is [name, embedded, data] with data "none"          *)
(* (extract_font gave nothing), "noglyphs" or "ok".  The catalog is a      *)
(* function from font names to a path or None; paths are strings.         *)
(***************************************************************************)
FALLBACK_FONT_NAME == "helv"

\* the temporary file an embedded font is written to
tmp_path(font_name) ==
    CASE font_name = "F1" -> "/tmp/F1.ttf"
      [] font_name = "F2" -> "/tmp/F2.ttf"
      [] font_name = "D.ttf" -> "/tmp/D.ttf.ttf"
      [] font_name = "helv" -> "/tmp/helv.ttf"

\* dict()
EmptyDict == [x \in {} |-> None]

dict_set(d, k, v) == [x \in DOMAIN d \cup {k} |-> IF x = k THEN v ELSE d[x]]

\* dict.get(k, None)
dict_get(d, k) == IF k \in DOMAIN d THEN d[k] ELSE None

RECURSIVE flatten(_)
flatten(pages) == IF pages = << >> THEN << >> ELSE pages[1] \o flatten(Tail(pages))

RECURSIVE font_loop(_, _, _)
\* the loops over pages and fonts: fonts_dict after them
font_loop(fs, fonts_dict, fonts_found) ==
    IF fs = << >> THEN fonts_dict
    ELSE LET f == fs[1]
         IN  IF ~ f.embedded \/ f.name \in fonts_found
             THEN font_loop(Tail(fs), fonts_dict, fonts_found)
             ELSE font_loop(Tail(fs),
                            dict_set(fonts_dict, f.name,
                                     IF f.data = "ok" THEN tmp_path(f.name) ELSE None),
                            fonts_found \cup {f.name})

\* os.path.basename on the default font paths of the model
basename(path) ==
    CASE path = "/fonts/D.ttf" -> "D.ttf"
      [] path = "/fonts/F1" -> "F1"

get_usable_fonts(doc, font_path) ==
    LET fonts_dict == font_loop(flatten(doc), EmptyDict, {})
    IN  IF font_path = None
        THEN [fonts |-> fonts_dict, default |-> FALLBACK_FONT_NAME]
        ELSE LET name == basename(font_path)
             IN  [fonts |-> IF name \notin DOMAIN fonts_dict \/ fonts_dict[name] = None
                            THEN dict_set(fonts_dict, name, font_path)
                            ELSE fonts_dict,
                  default |-> name]

\* whether a font name the catalog knows keeps its place in the first test
known_font_kept(fonts, font_name) == font_name \in DOMAIN fonts

\* a choice that keeps the font's name when the catalog has no file for it
resolve_font_unreset(fonts, default_name, common_font) ==
    LET font_name == IF ~ known_font_kept(fonts, common_font) /\ common_font # default_name
                     THEN default_name ELSE common_font
    IN  [font_name |-> font_name, font_file |-> dict_get(fonts, font_name)]

\* translate_pdf's choice of (fontname, fontfile) for a block
resolve_font(fonts, default_name, common_font) ==
    LET font_name == IF ~ known_font_kept(fonts, common_font) /\ common_font # default_name
                     THEN default_name ELSE common_font
        font_file_path == dict_get(fonts, font_name)
    IN  [font_name |-> IF font_file_path = None THEN FALLBACK_FONT_NAME ELSE font_name,
         font_file |-> font_file_path]

(***************************************************************************)
(* The inputs of the model.                                                *)
(***************************************************************************)
RECURSIVE SeqsUpTo(_, _)
\* the sequences over S of length at most n
SeqsUpTo(S, n) ==
    IF n = 0 THEN {<< >>}
    ELSE LET shorter == SeqsUpTo(S, n - 1)
         IN  shorter \cup {Append(q, x) : q \in {r \in shorter : Len(r) = n - 1}, x \in S}

SanChars == {"1", "a", SP, LF, CR}
SanTexts == SeqsUpTo(SanChars, MaxLen)

BBox == << 0, 0, 50, 20 >>
Span(text, size, font) == [text |-> text, size |-> size, font |-> font]
Line(dir, spans) == [dir |-> dir, spans |-> spans]
TextBlock(lines) == [has_lines |-> TRUE, bbox |-> BBox, lines |-> lines]
ImageBlock == [has_lines |-> FALSE, bbox |-> BBox, lines |-> << >>]

SpanChoices == {Span(<<"a">>, 1, "F1"), Span(<<"1">>, 2, "F1"),
                Span(<<SP>>, 1, "F2"), Span(<<"1", CR>>, 2, "F2")}
DirChoices == {NoDir, << 10, 0 >>, << 9, -4 >>, << 0, 10 >>}
LineChoices == {Line(d, ss) : d \in DirChoices,
                              ss \in {<< >>} \cup {<<sp>> : sp \in SpanChoices}}
RawBlocks == {ImageBlock} \cup {TextBlock(ls) : ls \in SeqsUpTo(LineChoices, MaxLines)}

Right == << 10, 0 >>
Down == << 0, 10 >>
\* the raw blocks the pages of a translate_pdf run are made of
PipelineRawBlocks ==
    { TextBlock(<< Line(Right, << Span(<<"a">>, 1, "F1") >>) >>),
      TextBlock(<< Line(Right, << Span(<<"1">>, 2, "F1") >>) >>),
      TextBlock(<< Line(Right, << Span(<<"a">>, 1, "F1") >>),
                   Line(Right, << Span(<<"A">>, 2, "F2") >>) >>),
      TextBlock(<< Line(Right, << Span(<<"a">>, 1, "F1") >>),
                   Line(Down, << Span(<<"a">>, 1, "F1") >>) >>) }
PipelinePages == SeqsUpTo(PipelineRawBlocks, MaxBlocks)

ExtractPages == {<<b>> : b \in RawBlocks} \cup PipelinePages

FontNames == {"F1", "F2"}
FontRefs == {[name |-> n, embedded |-> e, data |-> d] :
                n \in FontNames, e \in BOOLEAN, d \in {"none", "noglyphs", "ok"}}
\* the fonts of a document: per page, the list page.get_fonts gives
FontDocs == SeqsUpTo(SeqsUpTo(FontRefs, 1), MaxPages)
DefaultFontPaths == {None, "/fonts/D.ttf", "/fonts/F1"}
BlockFonts == FontNames \cup {None, "D.ttf", "G", FALLBACK_FONT_NAME}

(***************************************************************************)
(* Initial values of the parts a specification does not exercise.          *)
(***************************************************************************)
SanIdle == san_text = << >> /\ san_result = << >>
ExIdle == ex_page = << >> /\ ex_result = << >>
FontIdle ==
    /\ default_font_path = None
    /\ usable_fonts = EmptyDict
    /\ default_font_name = FALLBACK_FONT_NAME
    /\ font_block = "idle"
    /\ font_choice = << >>

EnvIdle == environ = << >>
ZeroTotals == [total_request_tokens |-> 0, max_request_token_length |-> 0,
               total_requests |-> 0, cache_hits |-> 0, total_pages |-> 0,
               total_blocks |-> 0, total_token_target_hits |-> 0]
AnIdle == token_target = << >> /\ totals = ZeroTotals /\ analyzed = << >>
NameIdle == input_file = << >> /\ target_lang = None /\ output_file = << >>
DlgIdle ==
    /\ page_items = << >> /\ page_listbox = << >> /\ main_document = << >>
    /\ drag_start_index = << >> /\ drag_preview_index = << >> /\ last_move = << >>

(***************************************************************************)
(* sanitize_text on the texts up to MaxLen.                                *)
(***************************************************************************)
Sanitize ==
    /\ san_result = << >>
    /\ san_result' = << sanitize_text(san_text) >>
    /\ UNCHANGED << san_text, exVars, fontVars, fitVars, cacheVars, pdfVars >>
    /\ UNCHANGED << environ, anVars, nameVars >>
    /\ UNCHANGED dlgVars

(***************************************************************************)
(* extract_blocks on one page.                                             *)
(***************************************************************************)
ExtractBlocks ==
    /\ ex_result = << >>
    /\ ex_result' = << extract_blocks(ex_page) >>
    /\ UNCHANGED << ex_page, sanVars, fontVars, fitVars, cacheVars, pdfVars >>
    /\ UNCHANGED << environ, anVars, nameVars >>
    /\ UNCHANGED dlgVars

(***************************************************************************)
(* get_usable_fonts on a document, then the resolution of a block's font.  *)
(***************************************************************************)
GetUsableFonts ==
    /\ font_block = "idle"
    /\ \E doc \in FontDocs, path \in DefaultFontPaths :
         LET r == get_usable_fonts(doc, path)
         IN  /\ default_font_path' = path
             /\ usable_fonts' = r.fonts
             /\ default_font_name' = r.default
    /\ font_block' = "pending"
    /\ UNCHANGED << font_choice, sanVars, exVars, fitVars, cacheVars, pdfVars >>
    /\ UNCHANGED << environ, anVars, nameVars >>
    /\ UNCHANGED dlgVars

ResolveFont ==
    /\ font_block = "pending"
    /\ \E common_font \in BlockFonts :
         /\ font_block' = common_font
         /\ font_choice' = << resolve_font(usable_fonts, default_font_name, common_font) >>
    /\ UNCHANGED << default_font_path, usable_fonts, default_font_name, sanVars, exVars,
                    fitVars, cacheVars, pdfVars >>
    /\ UNCHANGED << environ, anVars, nameVars >>
    /\ UNCHANGED dlgVars

(***************************************************************************)
(* insert_text_block.  One step is one evaluation of the while condition   *)
(* (one call of page.insert_textbox, whose outcome is an input) and, when  *)
(* the condition holds, the loop body.                                     *)
(***************************************************************************)
NoKwargs == [rect |-> BBox, buffer |-> << >>, fontname |-> FALLBACK_FONT_NAME,
             fontfile |-> None, oc |-> "ocg_trans", rotate |-> << >>]

FitIdle ==
    /\ fit_pc = "idle"
    /\ fit_kwargs = NoKwargs
    /\ fontsize = [num |-> 0, den |-> 1]
    /\ start_fontsize = [num |-> 0, den |-> 1]
    /\ attempts = 0
    /\ rendered = {}
    /\ last_render = "none"
    /\ diag = 0
    /\ drawn = << >>

\* the call insert_text_block(page, fontsize=size, **kwargs)
call_insert_text_block(size, kwargs) ==
    /\ fit_pc' = "loop"
    /\ fit_kwargs' = kwargs
    /\ fontsize' = size
    /\ start_fontsize' = size
    /\ attempts' = 0
    /\ rendered' = {}
    /\ last_render' = "none"
    /\ diag' = 0

\* page.insert_textbox(...) < 0 and fontsize > 0
loop_continues(rc_negative, size) == rc_negative /\ size.num > 0

\* fontsize -= 1
decrement(size) == [num |-> size.num - size.den, den |-> size.den]

InsertTextbox ==
    /\ fit_pc = "loop"
    /\ \E rc_negative \in BOOLEAN :
         /\ attempts' = attempts + 1
         /\ rendered' = rendered \cup {fontsize}
         /\ last_render' = IF rc_negative THEN "overflow" ELSE "fit"
         /\ drawn' = IF rc_negative THEN drawn
                     ELSE Append(drawn, [op |-> "insert_textbox", oc |-> fit_kwargs.oc,
                                         text |-> fit_kwargs.buffer])
         /\ IF loop_continues(rc_negative, fontsize)
            THEN /\ fontsize' = decrement(fontsize)
                 /\ diag' = IF decrement(fontsize).num <= 0 THEN diag + 1 ELSE diag
                 /\ fit_pc' = "loop"
            ELSE /\ fit_pc' = "return"
                 /\ UNCHANGED << fontsize, diag >>
    /\ UNCHANGED << fit_kwargs, start_fontsize, sanVars, exVars, fontVars, cacheVars, pdfVars >>
    /\ UNCHANGED << environ, anVars, nameVars >>
    /\ UNCHANGED dlgVars

(***************************************************************************)
(* TextTranslator and its subclasses.  A backend outcome is what the       *)
(* completion call does: finish "stop" with a content, another finish      *)
(* reason, or an exception.  A result is a sequence of length 0 (None) or  *)
(* 1.                                                                      *)
(***************************************************************************)
CacheTexts == {<<"a">>, <<"a", "A">>, <<"1">>}
Contents == {<<"b">>, <<"A", LF>>}
BackendOutcomes == {[finish |-> "stop", content |-> c] : c \in Contents}
                   \cup {[finish |-> "length", content |-> c] : c \in Contents}
                   \cup {[finish |-> "exception", content |-> << >>]}
TRANSLATORS == {"openai", "cacheonly"}
PreStores == {EmptyDict, dict_set(EmptyDict, <<"a">>, <<"b">>)}

CacheIdle ==
    /\ store_open = FALSE
    /\ translation_cache = EmptyDict
    /\ last_call = << >>
    /\ close_calls = 0
    /\ written_on_page = {}
    /\ call_log = [t \in CacheTexts |-> << >>]

\* int(os.getenv("LLM_API_MAX_TOKENS", 128000))
DefaultContextSize == 128000
model_context_size(env) ==
    IF env.LLM_API_MAX_TOKENS = << >> THEN DefaultContextSize ELSE env.LLM_API_MAX_TOKENS[1]

\* _create_prompt(text): the instructions, then the text; an element is a token
PromptInstructions == << "You are an expert", "Text: " >>
create_prompt(text) == PromptInstructions \o text

\* _get_token_count(prompt)
get_token_count(prompt) == Len(prompt)

\* max(self.model_context_size - request_tokens, self.model_context_size)
free_tokens(context_size, request_tokens) ==
    IF context_size - request_tokens > context_size THEN context_size - request_tokens
    ELSE context_size

\* whether _execute_prompt of the class calls client.chat.completions.create: the
\* openai translator does, whatever the request's token count
request_submitted(class, context_size, request_tokens) == class = "openai"

\* _execute_prompt of the translator class
execute_prompt(class, outcome) ==
    IF class = "cacheonly" THEN << >>
    ELSE IF outcome.finish = "stop" THEN << outcome.content >> ELSE << >>

\* a translate_text that stores no result
cache_after_miss_unstored(text, result) == translation_cache

\* a translate_text that stores the source text when the backend gave None
cache_after_miss_poisoned(text, result) ==
    dict_set(translation_cache, text, IF result # << >> THEN result[1] ELSE text)

\* the cache after a miss: the result is stored unless it is None
cache_after_miss(text, result) ==
    IF result # << >> THEN dict_set(translation_cache, text, result[1])
    ELSE translation_cache

\* a translate_text that returns an empty string when the backend gave None
translate_text_return_empty(text, result) ==
    IF text \in DOMAIN translation_cache THEN translation_cache[text]
    ELSE IF result # << >> THEN result[1] ELSE << >>

\* what translate_text(text) returns
translate_text_return(text, result) ==
    IF text \in DOMAIN translation_cache THEN translation_cache[text]
    ELSE IF result # << >> THEN result[1] ELSE text

\* translate_text(text) on the instance, the backend behaving as outcome.
\* last_call records the call: the value stored under text before it (a sequence of
\* length 0 or 1), whether _execute_prompt was invoked, whether it gave None, the
\* value returned and whether the cache changed.
translate_text(text, outcome) ==
    LET hit == text \in DOMAIN translation_cache
        result == execute_prompt(translator, outcome)
        ret == translate_text_return(text, result)
        openai == ~ hit /\ translator = "openai"
        request_tokens == IF openai THEN get_token_count(create_prompt(text)) ELSE 0
        context_size == IF openai THEN model_context_size(environ[1]) ELSE 0
    IN  /\ translation_cache' = IF hit THEN translation_cache
                                ELSE cache_after_miss(text, result)
        /\ written_on_page' = IF translation_cache' # translation_cache
                              THEN written_on_page \cup {text} ELSE written_on_page
        /\ last_call' = << [text |-> text,
                             stored |-> IF hit THEN << translation_cache[text] >> ELSE << >>,
                             invoked |-> ~ hit,
                             failed |-> ~ hit /\ result = << >>,
                             ret |-> ret,
                             changed |-> translation_cache' # translation_cache,
                             request_tokens |-> request_tokens,
                             max_completion_tokens |->
                                 IF openai THEN free_tokens(context_size, request_tokens)
                                 ELSE 0,
                             submitted |-> ~ hit /\ request_submitted(translator, context_size,
                                                                     request_tokens)] >>
        /\ UNCHANGED << translator_cache_file, store_open, durable_store, close_calls >>

\* a sync_cache that flushes nothing
sync_cache_unflushed == UNCHANGED cacheVars

\* sync_cache(): flushes the shelf when there is one
sync_cache ==
    /\ durable_store' = IF translator_cache_file # None THEN translation_cache
                        ELSE durable_store
    /\ UNCHANGED << translator_cache_file, store_open, translation_cache, close_calls,
                    last_call, written_on_page, call_log >>

\* close_cache(): closes the shelf (which syncs it), or resets the dict
close_cache ==
    /\ close_calls' = close_calls + 1
    /\ IF translator_cache_file # None
       THEN /\ durable_store' = translation_cache
            /\ store_open' = FALSE
            /\ UNCHANGED translation_cache
       ELSE /\ translation_cache' = EmptyDict
            /\ UNCHANGED << durable_store, store_open >>
    /\ UNCHANGED << translator_cache_file, last_call, written_on_page, call_log >>

\* a caller's translate_text on a live instance; call_log keeps the first two calls
\* made with each text
TranslateText ==
    /\ pc = "instance" /\ close_calls = 0
    /\ \E text \in CacheTexts, outcome \in BackendOutcomes :
         /\ translate_text(text, outcome)
         /\ call_log' = IF Len(call_log[text]) < 2
                        THEN [call_log EXCEPT ![text] = Append(@, last_call'[1])]
                        ELSE call_log
    /\ UNCHANGED << sanVars, exVars, fontVars, fitVars, pdfVars >>
    /\ UNCHANGED << environ, anVars, nameVars >>
    /\ UNCHANGED dlgVars

SyncCache ==
    /\ pc = "instance" /\ close_calls = 0
    /\ sync_cache
    /\ UNCHANGED << sanVars, exVars, fontVars, fitVars, pdfVars >>
    /\ UNCHANGED << environ, anVars, nameVars >>
    /\ UNCHANGED dlgVars

CloseCache ==
    /\ pc = "instance" /\ close_calls = 0
    /\ close_cache
    /\ UNCHANGED << sanVars, exVars, fontVars, fitVars, pdfVars >>
    /\ UNCHANGED << environ, anVars, nameVars >>
    /\ UNCHANGED dlgVars

(***************************************************************************)
(* translate_pdf.  pc is the position in the function; "raised" is the     *)
(* state in which an exception has left it, "done" its normal return.      *)
(* drawn is what has been drawn for the block being processed.             *)
(***************************************************************************)
TranslatorNames == TRANSLATORS \cup {"bogus"}
CacheFiles == {None, "cache.db"}
\* the process environment: which of the variables are set
\* LLM_API_MAX_TOKENS is unset (a sequence of length 0) or set to a number
Envs == [OPENAI_API_KEY : BOOLEAN, OPENAI_API_MODEL : BOOLEAN, OPENAI_API_BASE : BOOLEAN,
         LLM_API_MAX_TOKENS : {<< >>, << 3 >>}]
\* the environments of the runs of translate_pdf: the context size is the default
PipelineEnvs == {e \in Envs : e.LLM_API_MAX_TOKENS = << >>}
PipelineFontLists == {<< >>, << [name |-> "F1", embedded |-> TRUE, data |-> "noglyphs"] >>}
PipelineFontPaths == {None, "/fonts/D.ttf"}

PdfIdle ==
    /\ pc = "idle"
    /\ translator_name = None
    /\ translator = None
    /\ keep_original = TRUE
    /\ ocgs = {}
    /\ num_pages = 0
    /\ page_index = 0
    /\ blocks = << >>
    /\ block = << >>
    /\ translated = << >>
    /\ sync_calls = [p \in 0..(MaxPages - 1) |-> 0]
    /\ saved = 0
    /\ exc = None

\* os.getenv("OPENAI_API_KEY", 'None'): the default is the string 'None'
getenv_api_key(env) == IF env.OPENAI_API_KEY THEN "key" ELSE "'None'"
\* os.getenv(name, None)
getenv(env_is_set) == IF env_is_set THEN "value" ELSE None

\* the exception the constructor of the class raises after TextTranslator.__init__
\* has run, or None
constructor_raises(class, env, cache_file) ==
    IF class = "openai"
    THEN IF getenv_api_key(env) = None THEN "AssertionError"
         ELSE IF getenv(env.OPENAI_API_MODEL) = None THEN "AssertionError"
         ELSE IF getenv(env.OPENAI_API_BASE) = None THEN "AssertionError"
         ELSE None
    ELSE IF cache_file = None THEN "ValueError" ELSE None

\* the name translate_pdf's handler finds in its variable translator when the
\* constructor raised: the assignment never happened
translator_after_failed_constructor(class) == None

\* the environments in which an openai translator was constructed, all its
\* variables set but for the context size
InstanceEnvs == {e \in Envs : /\ constructor_raises("openai", e, None) = None
                              /\ e.OPENAI_API_KEY}

LookupTranslator ==
    /\ pc = "start"
    /\ IF translator_name \notin TRANSLATORS
       THEN exc' = "ValueError" /\ pc' = "raised"
       ELSE exc' = exc /\ pc' = "construct"
    /\ UNCHANGED << translator_name, translator, keep_original, ocgs, num_pages,
                    page_index, blocks, block, translated, sync_calls, saved >>
    /\ UNCHANGED << sanVars, exVars, fontVars, fitVars, cacheVars >>
    /\ UNCHANGED << environ, anVars, nameVars >>
    /\ UNCHANGED dlgVars

Construct ==
    /\ pc = "construct"
    /\ store_open' = (translator_cache_file # None)
    /\ translation_cache' = IF translator_cache_file # None THEN durable_store
                            ELSE EmptyDict
    /\ \E env \in PipelineEnvs :
         LET raised == constructor_raises(translator_name, env, translator_cache_file)
         IN  /\ environ' = IF translator_name = "openai" THEN << env >> ELSE << >>
             /\ IF raised # None
                THEN /\ exc' = raised
                     /\ translator' = translator_after_failed_constructor(translator_name)
                     /\ pc' = "except"
                ELSE /\ exc' = exc
                     /\ translator' = translator_name
                     /\ pc' = "open"
    /\ UNCHANGED << translator_cache_file, durable_store, close_calls, last_call,
                    written_on_page, call_log >>
    /\ UNCHANGED << translator_name, keep_original, ocgs, num_pages, page_index, blocks,
                    block, translated, sync_calls, saved >>
    /\ UNCHANGED << sanVars, exVars, fontVars, fitVars >>
    /\ UNCHANGED << anVars, nameVars >>
    /\ UNCHANGED dlgVars

OpenDocument ==
    /\ pc = "open"
    /\ \E opened \in BOOLEAN, n \in 0..MaxPages, path \in PipelineFontPaths :
         \E doc \in {d \in SeqsUpTo(PipelineFontLists, MaxPages) : Len(d) = n} :
           IF ~ opened
           THEN /\ exc' = "FileDataError" /\ pc' = "except"
                /\ UNCHANGED << ocgs, num_pages, default_font_path, usable_fonts,
                                default_font_name >>
           ELSE /\ exc' = exc /\ pc' = "page"
                /\ num_pages' = n
                /\ default_font_path' = path
                /\ usable_fonts' = get_usable_fonts(doc, path).fonts
                /\ default_font_name' = get_usable_fonts(doc, path).default
                /\ ocgs' = IF keep_original THEN {"ocg_trans"} ELSE {"ocg_trans", "ocg_orig"}
    /\ page_index' = 0
    /\ UNCHANGED << translator_name, translator, keep_original, blocks, block, translated,
                    sync_calls, saved, font_block, font_choice >>
    /\ UNCHANGED << sanVars, exVars, fitVars, cacheVars >>
    /\ UNCHANGED << environ, anVars, nameVars >>
    /\ UNCHANGED dlgVars

ExtractPage ==
    /\ pc = "page" /\ page_index < num_pages
    /\ \E raws \in PipelinePages :
         LET r == extract_blocks(raws)
         IN  IF r.raised # None
             THEN exc' = r.raised /\ pc' = "except" /\ blocks' = << >>
             ELSE exc' = exc /\ pc' = "block" /\ blocks' = r.blocks
    /\ written_on_page' = {}
    /\ UNCHANGED << translator_cache_file, store_open, translation_cache, durable_store,
                    close_calls, last_call, call_log >>
    /\ UNCHANGED << translator_name, translator, keep_original, ocgs, num_pages,
                    page_index, block, translated, sync_calls, saved >>
    /\ UNCHANGED << sanVars, exVars, fontVars, fitVars >>
    /\ UNCHANGED << environ, anVars, nameVars >>
    /\ UNCHANGED dlgVars

BlockText == sanitize_text(block[1].text).text

StartBlock ==
    /\ pc = "block" /\ blocks # << >>
    /\ block' = << Head(blocks) >>
    /\ blocks' = Tail(blocks)
    /\ pc' = IF sanitize_text(Head(blocks).text).is_valid_text THEN "translate" ELSE "next"
    /\ UNCHANGED << translator_name, translator, keep_original, ocgs, num_pages,
                    page_index, translated, sync_calls, saved, exc >>
    /\ UNCHANGED << sanVars, exVars, fontVars, fitVars, cacheVars >>
    /\ UNCHANGED << environ, anVars, nameVars >>
    /\ UNCHANGED dlgVars

Translate ==
    /\ pc = "translate"
    /\ \E outcome \in BackendOutcomes :
         LET ret == translate_text_return(BlockText, execute_prompt(translator, outcome))
             prepared == prepare_pdf_text(BlockText, ret)
         IN  /\ translate_text(BlockText, outcome)
             /\ UNCHANGED call_log
             /\ translated' = << prepared >>
             /\ pc' = IF is_valid_translation(BlockText, prepared) THEN "mask" ELSE "next"
    /\ UNCHANGED << translator_name, translator, keep_original, ocgs, num_pages,
                    page_index, blocks, block, sync_calls, saved, exc >>
    /\ UNCHANGED << sanVars, exVars, fontVars, fitVars >>
    /\ UNCHANGED << environ, anVars, nameVars >>
    /\ UNCHANGED dlgVars

\* a mask whose covering rectangle names no layer when originals are kept
mask_drawings_unlayered(keep, text) ==
    IF ~ keep
    THEN << [op |-> "insert_htmlbox", oc |-> "ocg_orig", text |-> text],
            [op |-> "draw_rect", oc |-> None, text |-> << >>] >>
    ELSE << [op |-> "draw_rect", oc |-> None, text |-> << >>] >>

\* a mask that clears the box before it copies the original
mask_drawings_cleared_first(keep, text) ==
    IF ~ keep
    THEN << [op |-> "draw_rect", oc |-> None, text |-> << >>],
            [op |-> "insert_htmlbox", oc |-> "ocg_orig", text |-> text] >>
    ELSE << [op |-> "draw_rect", oc |-> "ocg_trans", text |-> << >>] >>

\* what translate_pdf draws for a block before it places the translation
mask_drawings(keep, text) ==
    IF ~ keep
    THEN << [op |-> "insert_htmlbox", oc |-> "ocg_orig", text |-> text],
            [op |-> "draw_rect", oc |-> None, text |-> << >>] >>
    ELSE << [op |-> "draw_rect", oc |-> "ocg_trans", text |-> << >>] >>

MaskAndPlace ==
    /\ pc = "mask"
    /\ drawn' = drawn \o mask_drawings(keep_original, BlockText)
    /\ LET choice == resolve_font(usable_fonts, default_font_name, block[1].common_font)
       IN  /\ font_block' = block[1].common_font
           /\ font_choice' = << choice >>
           /\ call_insert_text_block(block[1].avg_font_size,
                  [rect |-> block[1].bbox, buffer |-> translated[1],
                   fontname |-> choice.font_name, fontfile |-> choice.font_file,
                   oc |-> "ocg_trans", rotate |-> block[1].rotation])
    /\ pc' = "place"
    /\ UNCHANGED << translator_name, translator, keep_original, ocgs, num_pages,
                    page_index, blocks, block, translated, sync_calls, saved, exc >>
    /\ UNCHANGED << default_font_path, usable_fonts, default_font_name >>
    /\ UNCHANGED << sanVars, exVars, cacheVars >>
    /\ UNCHANGED << environ, anVars, nameVars >>
    /\ UNCHANGED dlgVars

\* insert_text_block has returned
PlaceReturn ==
    /\ pc = "place" /\ fit_pc = "return"
    /\ pc' = "next"
    /\ UNCHANGED << translator_name, translator, keep_original, ocgs, num_pages,
                    page_index, blocks, block, translated, sync_calls, saved, exc >>
    /\ UNCHANGED << sanVars, exVars, fontVars, fitVars, cacheVars >>
    /\ UNCHANGED << environ, anVars, nameVars >>
    /\ UNCHANGED dlgVars

\* the end of the body of the loop over the blocks: its locals are dropped
NextBlock ==
    /\ pc = "next"
    /\ pc' = "block"
    /\ block' = << >>
    /\ translated' = << >>
    /\ last_call' = << >>
    /\ font_block' = "idle" /\ font_choice' = << >>
    /\ fit_pc' = "idle" /\ fit_kwargs' = NoKwargs
    /\ fontsize' = [num |-> 0, den |-> 1] /\ start_fontsize' = [num |-> 0, den |-> 1]
    /\ attempts' = 0 /\ rendered' = {} /\ last_render' = "none" /\ diag' = 0
    /\ drawn' = << >>
    /\ UNCHANGED << translator_cache_file, store_open, translation_cache, durable_store,
                    close_calls, written_on_page, call_log >>
    /\ UNCHANGED << default_font_path, usable_fonts, default_font_name >>
    /\ UNCHANGED << translator_name, translator, keep_original, ocgs, num_pages,
                    page_index, blocks, sync_calls, saved, exc >>
    /\ UNCHANGED << sanVars, exVars >>
    /\ UNCHANGED << environ, anVars, nameVars >>
    /\ UNCHANGED dlgVars

EndPage ==
    /\ pc = "block" /\ blocks = << >>
    /\ sync_cache
    /\ sync_calls' = [sync_calls EXCEPT ![page_index] = @ + 1]
    /\ page_index' = page_index + 1
    /\ pc' = "page"
    /\ UNCHANGED << translator_name, translator, keep_original, ocgs, num_pages, blocks,
                    block, translated, saved, exc >>
    /\ UNCHANGED << sanVars, exVars, fontVars, fitVars >>
    /\ UNCHANGED << environ, anVars, nameVars >>
    /\ UNCHANGED dlgVars

\* a loop over the pages that can be left before its last page
all_pages_done_early(index, pages) == index <= pages

\* the loop over the pages is exhausted
all_pages_done(index, pages) == index = pages

Save ==
    /\ pc = "page" /\ all_pages_done(page_index, num_pages)
    /\ \E written \in BOOLEAN :
         IF written THEN saved' = saved + 1 /\ pc' = "done" /\ exc' = exc
         ELSE saved' = saved /\ pc' = "except" /\ exc' = "SaveError"
    /\ UNCHANGED << translator_name, translator, keep_original, ocgs, num_pages,
                    page_index, blocks, block, translated, sync_calls >>
    /\ UNCHANGED << sanVars, exVars, fontVars, fitVars, cacheVars >>
    /\ UNCHANGED << environ, anVars, nameVars >>
    /\ UNCHANGED dlgVars

\* the except clause: close the cache when there is a translator, and re-raise
Except ==
    /\ pc = "except"
    /\ IF translator # None THEN close_cache ELSE UNCHANGED cacheVars
    /\ pc' = "raised"
    /\ UNCHANGED << translator_name, translator, keep_original, ocgs, num_pages,
                    page_index, blocks, block, translated, sync_calls, saved, exc >>
    /\ UNCHANGED << sanVars, exVars, fontVars, fitVars >>
    /\ UNCHANGED << environ, anVars, nameVars >>
    /\ UNCHANGED dlgVars

(***************************************************************************)
(* analyze_pdf.  It has no exception handler: an exception leaves it at    *)
(* once.  Its translator has no cache file, so the cache is a dict, and    *)
(* the value stored under a text is str(tokens).                           *)
(***************************************************************************)
\* token_target: None (a sequence of length 0) or a number
TokenTargets == {<< >>, << 0 >>, << 1 >>}

\* TextTranslator._create_prompt_text(text), which no subclass overrides
create_prompt_text(text) == text

\* get_request_token_count(text)
get_request_token_count(text) == Len(create_prompt_text(text))

RECURSIVE str_int(_)
\* str(n) for n >= 0
str_int(n) ==
    IF n < 10 THEN << ToString(n) >> ELSE str_int(n \div 10) \o << ToString(n % 10) >>

\* a test of the target that counts against targets that are not positive too
target_exceeded_unguarded(tokens, target) == tokens > target

\* token_target > 0 and tokens > token_target
target_exceeded(tokens, target) == target > 0 /\ tokens > target

\* max(a, b)
max(a, b) == IF a >= b THEN a ELSE b

\* the counters after a translatable block whose text is not in the cache
count_request(t, tokens, target) ==
    [t EXCEPT !.total_token_target_hits = IF target_exceeded(tokens, target) THEN @ + 1 ELSE @,
              !.max_request_token_length = max(tokens, @),
              !.total_request_tokens = @ + tokens,
              !.total_requests = @ + 1,
              !.total_blocks = @ + 1]

\* pymupdf.open, get_usable_fonts and the construction of the translator
AnalyzeOpen ==
    /\ pc = "an_open"
    /\ \E env \in PipelineEnvs, n \in 0..MaxPages :
         LET raised == constructor_raises(translator_name, env, None)
         IN  /\ environ' = IF translator_name = "openai" THEN << env >> ELSE << >>
             /\ IF raised # None
                THEN /\ exc' = raised /\ pc' = "raised"
                     /\ UNCHANGED << translator, num_pages >>
                ELSE /\ exc' = exc /\ pc' = "an_page"
                     /\ translator' = translator_name
                     /\ num_pages' = n
    /\ translation_cache' = EmptyDict
    /\ UNCHANGED << translator_cache_file, store_open, durable_store, close_calls,
                    last_call, written_on_page, call_log >>
    /\ UNCHANGED << translator_name, keep_original, ocgs, page_index, blocks, block,
                    translated, sync_calls, saved >>
    /\ UNCHANGED << sanVars, exVars, fontVars, fitVars, anVars, nameVars >>
    /\ UNCHANGED dlgVars

\* the next page: extract_blocks
AnalyzePage ==
    /\ pc = "an_page" /\ page_index < num_pages
    /\ \E raws \in PipelinePages :
         LET r == extract_blocks(raws)
         IN  IF r.raised # None
             THEN exc' = r.raised /\ pc' = "raised" /\ blocks' = << >>
             ELSE exc' = exc /\ pc' = "an_block" /\ blocks' = r.blocks
    /\ UNCHANGED << translator_name, translator, keep_original, ocgs, num_pages,
                    page_index, block, translated, sync_calls, saved >>
    /\ UNCHANGED << sanVars, exVars, fontVars, fitVars, cacheVars, environ, anVars, nameVars >>
    /\ UNCHANGED dlgVars

\* the body of the loop over the blocks
AnalyzeBlock ==
    /\ pc = "an_block" /\ blocks # << >>
    /\ blocks' = Tail(blocks)
    /\ LET cls == sanitize_text(Head(blocks).text)
           tokens == get_request_token_count(cls.text)
       IN  IF ~ cls.is_valid_text
           THEN /\ totals' = [totals EXCEPT !.total_blocks = @ + 1]
                /\ UNCHANGED << translation_cache, analyzed, pc, exc >>
           ELSE IF cls.text \in DOMAIN translation_cache
           THEN /\ totals' = [totals EXCEPT !.cache_hits = @ + 1, !.total_blocks = @ + 1]
                /\ analyzed' = Append(analyzed, cls.text)
                /\ UNCHANGED << translation_cache, pc, exc >>
           ELSE IF token_target = << >>
           THEN \* None > 0
                /\ exc' = "TypeError" /\ pc' = "raised"
                /\ UNCHANGED << translation_cache, analyzed, totals >>
           ELSE /\ totals' = count_request(totals, tokens, token_target[1])
                /\ translation_cache' = dict_set(translation_cache, cls.text, str_int(tokens))
                /\ analyzed' = Append(analyzed, cls.text)
                /\ UNCHANGED << pc, exc >>
    /\ UNCHANGED << translator_cache_file, store_open, durable_store, close_calls,
                    last_call, written_on_page, call_log >>
    /\ UNCHANGED << translator_name, translator, keep_original, ocgs, num_pages,
                    page_index, block, translated, sync_calls, saved >>
    /\ UNCHANGED << sanVars, exVars, fontVars, fitVars, environ, token_target, nameVars >>
    /\ UNCHANGED dlgVars

\* the end of the body of the loop over the pages
AnalyzeEndPage ==
    /\ pc = "an_block" /\ blocks = << >>
    /\ totals' = [totals EXCEPT !.total_pages = @ + 1]
    /\ page_index' = page_index + 1
    /\ pc' = "an_page"
    /\ UNCHANGED << translator_name, translator, keep_original, ocgs, num_pages, blocks,
                    block, translated, sync_calls, saved, exc >>
    /\ UNCHANGED << sanVars, exVars, fontVars, fitVars, cacheVars, environ, token_target,
                    analyzed, nameVars >>
    /\ UNCHANGED dlgVars

\* the report of the totals
AnalyzeReport ==
    /\ pc = "an_page" /\ page_index = num_pages
    /\ pc' = "done"
    /\ UNCHANGED << translator_name, translator, keep_original, ocgs, num_pages,
                    page_index, blocks, block, translated, sync_calls, saved, exc >>
    /\ UNCHANGED << sanVars, exVars, fontVars, fitVars, cacheVars, environ, anVars, nameVars >>
    /\ UNCHANGED dlgVars

(***************************************************************************)
(* The output file name of translate_pdf.  A path is a sequence whose      *)
(* elements are the characters "." and "/" and names without either.       *)
(***************************************************************************)
PathElements == {"report", "pdf", "PDF", ".", "/"}
InputFiles == SeqsUpTo(PathElements, MaxPathLen)
TargetLangs == {"fr", "zh-CN"}

\* str.rsplit('.', 1)[0]: the string before its last '.', or all of it
rsplit_head(path) ==
    LET dots == {i \in 1..Len(path) : path[i] = "."}
    IN  IF dots = {} THEN path
        ELSE SubSeq(path, 1, (CHOOSE k \in dots : \A i \in dots : i <= k) - 1)

\* input_file.rsplit('.', 1)[0] + f'-{target_lang}.pdf'
output_name(path, lang) == rsplit_head(path) \o << "-", lang, ".", "pdf" >>

OutputName ==
    /\ output_file = << >>
    /\ output_file' = output_name(input_file, target_lang)
    /\ UNCHANGED << input_file, target_lang >>
    /\ UNCHANGED << sanVars, exVars, fontVars, fitVars, cacheVars, pdfVars, environ, anVars >>
    /\ UNCHANGED dlgVars

(***************************************************************************)
(* OrganizePdfDialog of reorganize_pdf_gui.py.  Indices are those of the   *)
(* code, from 0: element i of a list is element i + 1 of its sequence.     *)
(* An attribute that is None or not set is a sequence of length 0.  An     *)
(* item of the listbox is its text and the text colour itemconfigure gave  *)
(* it; the background that highlights the target of a drag is written, and *)
(* never read, by the handlers, and is not kept.  main_document is the     *)
(* number of pages of the merged document.                                 *)
(***************************************************************************)
FileNames == {"a.pdf", "b.pdf"}
\* a path given to add_pdf: its file name, the pages of its document, and whether
\* fitz.open can open it
PdfPaths == [filename : FileNames, pages : 1..MaxDocPages, readable : BOOLEAN]
PathLists == SeqsUpTo(PdfPaths, 2) \ {<< >>}

\* PageItem(page_name, page_index, self.main_document, True)
PageItem(name, index, selected) ==
    [page_name |-> name, page_index |-> index, selected |-> selected]

\* f"{filename} - Page {page_num + 1}"
page_name_of(filename, page_num) == << filename, " - Page ", page_num + 1 >>

\* list.pop(i): the index of the element removed, a negative i counting from the end
py_index(l, i) == IF i < 0 THEN Len(l) + i ELSE i
list_without(l, i) == SubSeq(l, 1, i) \o SubSeq(l, i + 2, Len(l))
list_pop(l, i) == [item |-> l[py_index(l, i) + 1], rest |-> list_without(l, py_index(l, i))]

\* list.insert(i, x): before element i, at the end when i is beyond it
list_insert(l, i, x) ==
    LET k == IF i < 0 THEN (IF Len(l) + i < 0 THEN 0 ELSE Len(l) + i)
             ELSE IF i > Len(l) THEN Len(l) ELSE i
    IN  SubSeq(l, 1, k) \o << x >> \o SubSeq(l, k + 1, Len(l))

\* Listbox.nearest(event.y): an element of the listbox, -1 when it has none
nearest(lb) == IF lb = << >> THEN {-1} ELSE 0..(Len(lb) - 1)

\* Listbox.get(i): the text of element i, or '' when there is no such element
lb_get(lb, i) == IF i >= 0 /\ i < Len(lb) THEN lb[i + 1].text ELSE << >>

\* Listbox.delete(i): nothing when there is no such element
lb_delete(lb, i) == IF i >= 0 /\ i < Len(lb) THEN list_without(lb, i) ELSE lb

\* Listbox.insert(i, text): a new item, with no colours configured
lb_insert(lb, i, text) ==
    LET k == IF i < 0 THEN 0 ELSE IF i > Len(lb) THEN Len(lb) ELSE i
    IN  SubSeq(lb, 1, k) \o << [text |-> text, fg |-> ""] >>
        \o SubSeq(lb, k + 1, Len(lb))

\* Listbox.itemconfigure(i, ...) raises TclError when there is no element i
lb_has(lb, i) == i >= 0 /\ i < Len(lb)

\* _update_colors(index) on the listbox, index being an element of it
update_colors(items, lb, i) ==
    [lb EXCEPT ![i + 1].fg = IF items[py_index(items, i) + 1].selected
                             THEN "green" ELSE "black"]

\* _append_page_item(page_item)
append_page_item(st, page_item) ==
    LET items == Append(st.items, page_item)
        lb == Append(st.lb, [text |-> page_item.page_name, fg |-> ""])
    IN  [st EXCEPT !.items = items, !.lb = update_colors(items, lb, Len(items) - 1)]

RECURSIVE append_pages(_, _, _, _, _)
\* the loop over the pages of one document, from page page_num on
append_pages(st, filename, page_num, pages, index_start) ==
    IF page_num >= pages THEN st
    ELSE append_pages(append_page_item(st, PageItem(page_name_of(filename, page_num),
                                                    index_start + page_num, TRUE)),
                      filename, page_num + 1, pages, index_start)

\* the first page_index given to the pages of a document that is inserted into
\* main_document
new_index_start(st) == Len(st.items)

RECURSIVE add_loop(_, _)
\* the loop over pdf_paths; a path fitz.open cannot open ends it by its exception
add_loop(paths, st) ==
    IF paths = << >> THEN st
    ELSE LET path == paths[1]
         IN  IF ~ path.readable THEN st
             ELSE IF st.main = << >>
             THEN add_loop(Tail(paths),
                           append_pages([st EXCEPT !.main = << path.pages >>],
                                        path.filename, 0, path.pages, 0))
             ELSE add_loop(Tail(paths),
                           append_pages([st EXCEPT !.main = << st.main[1] + path.pages >>],
                                        path.filename, 0, path.pages, new_index_start(st)))

RECURSIVE total_pages(_)
total_pages(paths) ==
    IF paths = << >> THEN 0 ELSE paths[1].pages + total_pages(Tail(paths))

\* add_pdf(pdf_paths)
AddPdf ==
    /\ \E paths \in PathLists :
         /\ Len(page_items) + total_pages(paths) <= MaxItems
         /\ LET st == add_loop(paths, [items |-> page_items, lb |-> page_listbox,
                                       main |-> main_document])
            IN  /\ page_items' = st.items
                /\ page_listbox' = st.lb
                /\ main_document' = st.main
    /\ last_move' = << >>
    /\ UNCHANGED << drag_start_index, drag_preview_index >>
    /\ UNCHANGED << sanVars, exVars, fontVars, fitVars, cacheVars, pdfVars, environ,
                    anVars, nameVars >>

\* _toggle_selection(): curselection() is the element selected in the listbox, if any
ToggleSelection ==
    /\ \E curselection \in {<< >>} \cup {<< i >> : i \in 0..(Len(page_listbox) - 1)} :
         IF curselection # << >> /\ curselection[1] < Len(page_items)
         THEN LET items == [page_items EXCEPT ![curselection[1] + 1].selected = ~ @]
              IN  /\ page_items' = items
                  /\ page_listbox' = update_colors(items, page_listbox, curselection[1])
         ELSE UNCHANGED << page_items, page_listbox >>
    /\ last_move' = << >>
    /\ UNCHANGED << main_document, drag_start_index, drag_preview_index >>
    /\ UNCHANGED << sanVars, exVars, fontVars, fitVars, cacheVars, pdfVars, environ,
                    anVars, nameVars >>

\* _start_listbox_item_drag(event)
StartListboxItemDrag ==
    /\ \E index \in nearest(page_listbox) : drag_start_index' = << index >>
    /\ drag_preview_index' = << >>
    /\ last_move' = << >>
    /\ UNCHANGED << page_items, page_listbox, main_document >>
    /\ UNCHANGED << sanVars, exVars, fontVars, fitVars, cacheVars, pdfVars, environ,
                    anVars, nameVars >>

\* _during_listbox_item_drag(event); itemconfigure of an element the listbox does not
\* have raises, which leaves the handler
DuringListboxItemDrag ==
    /\ \E target_index \in nearest(page_listbox) :
         IF drag_start_index = << >> \/ << target_index >> = drag_preview_index
         THEN UNCHANGED << page_listbox, drag_preview_index >>
         ELSE IF ~ lb_has(page_listbox, target_index)
              THEN UNCHANGED << page_listbox, drag_preview_index >>
              ELSE /\ UNCHANGED page_listbox
                   /\ drag_preview_index' = << target_index >>
    /\ last_move' = << >>
    /\ UNCHANGED << page_items, main_document, drag_start_index >>
    /\ UNCHANGED << sanVars, exVars, fontVars, fitVars, cacheVars, pdfVars, environ,
                    anVars, nameVars >>

\* whether list l has an element i, a negative i counting from the end
py_has(l, i) == i < Len(l) /\ i >= 0 - Len(l)

\* whether _update_colors(i) returns: page_items[i] and the listbox's element i exist
can_update_colors(items, lb, i) == py_has(items, i) /\ lb_has(lb, i)

\* the move of _stop_listbox_item_drag: the listbox and the page items after it, and
\* whether the handler reaches its cleanup; pop and _update_colors raise on an index
\* their list does not have, which leaves the handler with what was done before
move_item(items, lb, from_index, to_index) ==
    LET text == lb_get(lb, from_index)
        moved_lb == lb_insert(lb_delete(lb, from_index), to_index, text)
    IN  IF ~ py_has(items, from_index)
        THEN [items |-> items, lb |-> moved_lb, cleanup |-> FALSE]
        ELSE LET popped == list_pop(items, from_index)
                 moved_items == list_insert(popped.rest, to_index, popped.item)
             IN  IF ~ can_update_colors(moved_items, moved_lb, to_index)
                 THEN [items |-> moved_items, lb |-> moved_lb, cleanup |-> FALSE]
                 ELSE LET coloured == update_colors(moved_items, moved_lb, to_index)
                      IN  IF ~ can_update_colors(moved_items, coloured, from_index)
                          THEN [items |-> moved_items, lb |-> coloured, cleanup |-> FALSE]
                          ELSE [items |-> moved_items,
                                lb |-> update_colors(moved_items, coloured, from_index),
                                cleanup |-> TRUE]

\* _stop_listbox_item_drag(event)
StopListboxItemDrag ==
    /\ Len(page_listbox) <= MaxItems
    /\ IF drag_start_index = << >>
       THEN UNCHANGED dlgVars
       ELSE IF drag_preview_index = << >>
       THEN /\ drag_start_index' = << >>
            /\ drag_preview_index' = << >>
            /\ last_move' = << >>
            /\ UNCHANGED << page_items, page_listbox >>
       ELSE LET from_index == drag_start_index[1]
                to_index == drag_preview_index[1]
                r == move_item(page_items, page_listbox, from_index, to_index)
            IN  IF to_index = from_index
                THEN /\ UNCHANGED page_listbox
                     /\ drag_start_index' = << >>
                     /\ drag_preview_index' = << >>
                     /\ last_move' = << >>
                     /\ UNCHANGED page_items
                ELSE /\ page_items' = r.items
                     /\ page_listbox' = r.lb
                     /\ last_move' = << [from_index |-> from_index, to_index |-> to_index,
                                         before |-> page_items] >>
                     /\ IF r.cleanup
                        THEN drag_start_index' = << >> /\ drag_preview_index' = << >>
                        ELSE UNCHANGED << drag_start_index, drag_preview_index >>
    /\ UNCHANGED main_document
    /\ UNCHANGED << sanVars, exVars, fontVars, fitVars, cacheVars, pdfVars, environ,
                    anVars, nameVars >>

(***************************************************************************)
(* The specifications.                                                     *)
(***************************************************************************)
\* a run of translate_pdf
Init ==
    /\ SanIdle /\ ExIdle /\ FontIdle /\ FitIdle /\ CacheIdle
    /\ EnvIdle /\ AnIdle /\ NameIdle /\ DlgIdle
    /\ translator_cache_file \in CacheFiles
    /\ durable_store \in IF translator_cache_file = None THEN {EmptyDict} ELSE PreStores
    /\ pc = "start"
    /\ translator_name \in TranslatorNames
    /\ translator = None
    /\ keep_original \in BOOLEAN
    /\ ocgs = {}
    /\ num_pages = 0
    /\ page_index = 0
    /\ blocks = << >>
    /\ block = << >>
    /\ translated = << >>
    /\ sync_calls = [p \in 0..(MaxPages - 1) |-> 0]
    /\ saved = 0
    /\ exc = None

Next ==
    \/ LookupTranslator
    \/ Construct
    \/ OpenDocument
    \/ ExtractPage
    \/ StartBlock
    \/ Translate
    \/ MaskAndPlace
    \/ InsertTextbox
    \/ PlaceReturn
    \/ NextBlock
    \/ EndPage
    \/ Save
    \/ Except

Spec == Init /\ [][Next]_vars

\* sanitize_text on every text up to MaxLen
InitSanitize ==
    /\ san_text \in SanTexts /\ san_result = << >>
    /\ ExIdle /\ FontIdle /\ FitIdle /\ CacheIdle /\ PdfIdle
    /\ EnvIdle /\ AnIdle /\ NameIdle /\ DlgIdle
    /\ translator_cache_file = None /\ durable_store = EmptyDict

NextSanitize == Sanitize

SpecSanitize == InitSanitize /\ [][NextSanitize]_vars

\* extract_blocks on every page of the model
InitExtract ==
    /\ ex_page \in ExtractPages /\ ex_result = << >>
    /\ SanIdle /\ FontIdle /\ FitIdle /\ CacheIdle /\ PdfIdle
    /\ EnvIdle /\ AnIdle /\ NameIdle /\ DlgIdle
    /\ translator_cache_file = None /\ durable_store = EmptyDict

NextExtract == ExtractBlocks

SpecExtract == InitExtract /\ [][NextExtract]_vars

\* the font catalog of a document and the font of a block
InitFonts ==
    /\ SanIdle /\ ExIdle /\ FontIdle /\ FitIdle /\ CacheIdle /\ PdfIdle
    /\ EnvIdle /\ AnIdle /\ NameIdle /\ DlgIdle
    /\ translator_cache_file = None /\ durable_store = EmptyDict

NextFonts == GetUsableFonts \/ ResolveFont

SpecFonts == InitFonts /\ [][NextFonts]_vars

\* a call of insert_text_block
InitFit ==
    /\ SanIdle /\ ExIdle /\ FontIdle /\ CacheIdle /\ PdfIdle
    /\ EnvIdle /\ AnIdle /\ NameIdle /\ DlgIdle
    /\ translator_cache_file = None /\ durable_store = EmptyDict
    /\ fit_pc = "loop"
    /\ fit_kwargs = NoKwargs
    /\ start_fontsize \in {[num |-> n, den |-> d] : n \in 0..MaxStartSize, d \in 1..MaxDen}
    /\ fontsize = start_fontsize
    /\ attempts = 0
    /\ rendered = {}
    /\ last_render = "none"
    /\ diag = 0
    /\ drawn = << >>

NextFit == InsertTextbox

SpecFit == InitFit /\ [][NextFit]_vars

\* a translator instance and its callers
InitTranslator ==
    /\ SanIdle /\ ExIdle /\ FontIdle /\ FitIdle /\ AnIdle /\ NameIdle /\ DlgIdle
    /\ translator \in TRANSLATORS
    /\ environ \in IF translator = "openai"
                   THEN {<< e >> : e \in InstanceEnvs}
                   ELSE {<< >>}
    /\ translator_cache_file \in IF translator = "cacheonly" THEN {"cache.db"} ELSE CacheFiles
    /\ durable_store \in IF translator_cache_file = None THEN {EmptyDict} ELSE PreStores
    /\ store_open = (translator_cache_file # None)
    /\ translation_cache = durable_store
    /\ last_call = << >>
    /\ close_calls = 0
    /\ written_on_page = {}
    /\ call_log = [t \in CacheTexts |-> << >>]
    /\ pc = "instance"
    /\ translator_name = translator
    /\ keep_original = TRUE
    /\ ocgs = {}
    /\ num_pages = 0
    /\ page_index = 0
    /\ blocks = << >>
    /\ block = << >>
    /\ translated = << >>
    /\ sync_calls = [p \in 0..(MaxPages - 1) |-> 0]
    /\ saved = 0
    /\ exc = None

NextTranslator == TranslateText \/ SyncCache \/ CloseCache

SpecTranslator == InitTranslator /\ [][NextTranslator]_vars

\* a run of analyze_pdf
InitAnalyze ==
    /\ SanIdle /\ ExIdle /\ FontIdle /\ FitIdle /\ CacheIdle /\ EnvIdle /\ NameIdle
    /\ DlgIdle
    /\ translator_cache_file = None /\ durable_store = EmptyDict
    /\ token_target \in TokenTargets
    /\ totals = ZeroTotals
    /\ analyzed = << >>
    /\ pc = "an_open"
    /\ translator_name \in TRANSLATORS
    /\ translator = None
    /\ keep_original = TRUE
    /\ ocgs = {}
    /\ num_pages = 0
    /\ page_index = 0
    /\ blocks = << >>
    /\ block = << >>
    /\ translated = << >>
    /\ sync_calls = [p \in 0..(MaxPages - 1) |-> 0]
    /\ saved = 0
    /\ exc = None

NextAnalyze ==
    \/ AnalyzeOpen
    \/ AnalyzePage
    \/ AnalyzeBlock
    \/ AnalyzeEndPage
    \/ AnalyzeReport

SpecAnalyze == InitAnalyze /\ [][NextAnalyze]_vars

\* the output name of every input path of the model
InitNaming ==
    /\ SanIdle /\ ExIdle /\ FontIdle /\ FitIdle /\ CacheIdle /\ PdfIdle /\ EnvIdle /\ AnIdle
    /\ DlgIdle
    /\ translator_cache_file = None /\ durable_store = EmptyDict
    /\ input_file \in InputFiles
    /\ target_lang \in TargetLangs
    /\ output_file = << >>

NextNaming == OutputName

SpecNaming == InitNaming /\ [][NextNaming]_vars

\* the events of an OrganizePdfDialog
InitOrganize ==
    /\ SanIdle /\ ExIdle /\ FontIdle /\ FitIdle /\ CacheIdle /\ PdfIdle /\ EnvIdle /\ AnIdle
    /\ NameIdle
    /\ translator_cache_file = None /\ durable_store = EmptyDict
    /\ page_items = << >>
    /\ page_listbox = << >>
    /\ main_document = << >>
    /\ drag_start_index = << >>
    /\ drag_preview_index = << >>
    /\ last_move = << >>

NextOrganize ==
    \/ AddPdf
    \/ ToggleSelection
    \/ StartListboxItemDrag
    \/ DuringListboxItemDrag
    \/ StopListboxItemDrag

SpecOrganize == InitOrganize /\ [][NextOrganize]_vars

(***************************************************************************)
(* The claims.                                                             *)
(***************************************************************************)
Invocations(log) == Cardinality({i \in 1..Len(log) : log[i].invoked})

\* C1 (as stated): two calls of translate_text with the same text invoke the backend
\* at most once in total and return the same value, whatever the backend does; and a
\* call that finds its key in the cache returns the stored value, invokes no backend
\* and leaves the cache as it was.
C1_TwiceInvokesOnce ==
    /\ \A t \in CacheTexts :
         Len(call_log[t]) = 2 =>
           /\ Invocations(call_log[t]) <= 1
           /\ call_log[t][2].ret = call_log[t][1].ret
    /\ (last_call # << >> /\ last_call[1].stored # << >>) =>
         /\ last_call[1].ret = last_call[1].stored[1]
         /\ ~ last_call[1].invoked
         /\ ~ last_call[1].changed

\* C1 (amended): when the first of two calls of translate_text with the same text did
\* not fail (it found the key, or the backend gave a value), the two calls invoke the
\* backend at most once in total and return the same value; and a call that finds its
\* key in the cache returns the stored value, invokes no backend and leaves the cache
\* as it was.
C1_TwiceInvokesOnceUnlessFailed ==
    /\ \A t \in CacheTexts :
         (Len(call_log[t]) = 2 /\ ~ call_log[t][1].failed) =>
           /\ Invocations(call_log[t]) <= 1
           /\ call_log[t][2].ret = call_log[t][1].ret
    /\ (last_call # << >> /\ last_call[1].stored # << >>) =>
         /\ last_call[1].ret = last_call[1].stored[1]
         /\ ~ last_call[1].invoked
         /\ ~ last_call[1].changed

\* a text translated by the backend at its first call and served from the cache at
\* its second
C1_Witness ==
    \E t \in CacheTexts :
        /\ Len(call_log[t]) = 2
        /\ call_log[t][1].invoked /\ ~ call_log[t][1].failed
        /\ ~ call_log[t][2].invoked
        /\ last_call[1].text = t /\ last_call[1].stored # << >>

\* C2: a translate_text that misses the cache and gets None from the backend returns
\* its text unchanged, leaves the cache as it was, without the text as a key, and the
\* next translate_text of that text invokes the backend again.
C2_FailedMissLeavesNoEntry ==
    /\ (last_call # << >> /\ last_call[1].failed) =>
         /\ last_call[1].ret = last_call[1].text
         /\ ~ last_call[1].changed
         /\ last_call[1].text \notin DOMAIN translation_cache
    /\ \A t \in CacheTexts :
         (Len(call_log[t]) = 2 /\ call_log[t][1].failed) => call_log[t][2].invoked

\* a text whose first call failed and whose second call went to the backend again
C2_Witness ==
    \E t \in CacheTexts :
        /\ Len(call_log[t]) = 2
        /\ call_log[t][1].failed
        /\ call_log[t][2].invoked
        /\ t \notin DOMAIN translation_cache

\* the durable store has been opened in this run
StoreWasOpened == store_open \/ (translator_cache_file # None /\ close_calls >= 1)

\* C3: when an exception leaves translate_pdf after the cache store was opened,
\* close_cache has been executed on that store.
C3_ClosedBeforeRaise ==
    (pc = "raised" /\ StoreWasOpened) => (close_calls >= 1 /\ ~ store_open)

\* the entries of the cache that no sync has flushed to the durable store
Unflushed ==
    {k \in DOMAIN translation_cache :
        k \notin DOMAIN durable_store \/ durable_store[k] # translation_cache[k]}

\* C4: sync_cache has been called exactly once for every page whose blocks are all
\* processed and not yet for the page being processed or a later one; with a durable
\* store, every cache entry not yet flushed was written while the current page was
\* being processed.
C4_SyncOncePerPage ==
    /\ \A p \in DOMAIN sync_calls : sync_calls[p] = IF p < page_index THEN 1 ELSE 0
    /\ translator_cache_file # None => Unflushed \subseteq written_on_page

\* the second page is being processed: the first page's translation is flushed, the
\* second page's is not
C4_Witness ==
    /\ pc = "next" /\ page_index = 1
    /\ sync_calls[0] = 1
    /\ translator_cache_file # None
    /\ durable_store # EmptyDict
    /\ Unflushed # {}

\* C5: insert_text_block makes at most starting_font_size + 1 render attempts and
\* never calls insert_textbox with a negative font size.
C5_FitLoopBounded ==
    /\ attempts * start_fontsize.den <= start_fontsize.num + start_fontsize.den
    /\ \A size \in rendered : size.num >= 0

\* C6: a block font with a usable catalog entry gets that entry; a block font whose
\* entry is null or that is not in the catalog gets the default font's asset when a
\* default font was supplied, and otherwise 'helv' with no font file.
C6_FontResolution ==
    (font_choice # << >>) =>
        IF dict_get(usable_fonts, font_block) # None
        THEN /\ font_choice[1].font_name = font_block
             /\ font_choice[1].font_file = usable_fonts[font_block]
        ELSE IF default_font_path # None
             THEN /\ font_choice[1].font_name = default_font_name
                  /\ font_choice[1].font_file = usable_fonts[default_font_name]
             ELSE /\ font_choice[1].font_name = FALLBACK_FONT_NAME
                  /\ font_choice[1].font_file = None

\* the distinct rounded directions of the lines of a raw block
DistinctDirs(raw) ==
    {round_dir(raw.lines[i].dir) : i \in {j \in 1..Len(raw.lines) : raw.lines[j].dir # NoDir}}

BlankText(raw) ==
    \A i \in 1..Len(raw.lines) : \A j \in 1..Len(raw.lines[i].spans) :
        \A k \in 1..Len(raw.lines[i].spans[j].text) :
            raw.lines[i].spans[j].text[k] \in Whitespace

\* C7 (as stated): extraction fails exactly when the page has a text block with two
\* or more distinct rounded directions, whatever the block's text.
C7_MultiRotationAlwaysFails ==
    (ex_result # << >>) =>
        (ex_result[1].raised # None <=>
            \E i \in 1..Len(ex_page) :
                ex_page[i].has_lines /\ Cardinality(DistinctDirs(ex_page[i])) >= 2)

\* C7 (amended): extraction fails exactly when the page has a text block with two or
\* more distinct rounded directions whose text is not empty or all whitespace; a
\* block whose text is empty or all whitespace is skipped without error whatever its
\* directions, and without an error every other text block is extracted.
C7_MultiRotationFailsUnlessBlank ==
    (ex_result # << >>) =>
        /\ ex_result[1].raised # None <=>
             \E i \in 1..Len(ex_page) :
                 /\ ex_page[i].has_lines
                 /\ Cardinality(DistinctDirs(ex_page[i])) >= 2
                 /\ ~ BlankText(ex_page[i])
        /\ ex_result[1].raised = None =>
             Len(ex_result[1].blocks) =
               Cardinality({i \in 1..Len(ex_page) :
                              ex_page[i].has_lines /\ ~ BlankText(ex_page[i])})

\* a block of two directions with text: extraction has failed
C7_Witness ==
    /\ ex_result # << >> /\ ex_result[1].raised = "AssertionError"
    /\ Len(ex_page) = 1 /\ Cardinality(DistinctDirs(ex_page[1])) = 2
    /\ ~ BlankText(ex_page[1])

\* C8: sanitize_text gives is_translatable = false exactly when the text without its
\* line endings ('\r\n', '\r', '\n') and spaces consists solely of digits.
C8_NumericIffNormalizedDigits ==
    (san_result # << >>) =>
        (~ san_result[1].is_valid_text <=>
            str_isdigit(SelectSeq(san_text, LAMBDA c : c \notin {CR, LF, SP})))

\* C9: when the backend gives no result for a block, nothing is drawn for the block,
\* no exception is raised, the block's text is kept, and the run is at the end of the
\* block's processing, from where it goes on with the next block.
C9_BackendFailureSkipsBlock ==
    (pc \notin {"instance", "idle"} /\ last_call # << >> /\ last_call[1].failed) =>
        /\ pc = "next"
        /\ drawn = << >>
        /\ exc = None
        /\ translated = << BlockText >>

\* the backend call of the openai translator has failed for a block
C9_Witness ==
    /\ pc = "next" /\ translator = "openai"
    /\ last_call # << >> /\ last_call[1].failed /\ last_call[1].invoked
    /\ blocks # << >>

\* C10 (as stated): every rectangle and every translated text drawn for a block is on
\* the translated layer, every relocated original on the original layer, and nothing
\* drawn is without a layer.
C10_EverythingLayered ==
    \A i \in 1..Len(drawn) :
        /\ drawn[i].op \in {"draw_rect", "insert_textbox"} => drawn[i].oc = "ocg_trans"
        /\ drawn[i].op = "insert_htmlbox" => drawn[i].oc = "ocg_orig"
        /\ drawn[i].oc # None

\* C10 (amended): every translated text placed is on the translated layer and every
\* relocated original on the original layer; the rectangle over a block is on the
\* translated layer when originals are kept, and is drawn on the base layer, without
\* a layer, when originals are discarded; every layer named exists in the document.
C10_LayeredButBaseClear ==
    \A i \in 1..Len(drawn) :
        /\ drawn[i].op = "insert_textbox" => drawn[i].oc = "ocg_trans"
        /\ drawn[i].op = "insert_htmlbox" => (drawn[i].oc = "ocg_orig" /\ ~ keep_original)
        /\ drawn[i].op = "draw_rect" =>
             drawn[i].oc = IF keep_original THEN "ocg_trans" ELSE None
        /\ drawn[i].oc # None => drawn[i].oc \in ocgs

\* originals are discarded and the block has its copy, its cleared box and its text
C10_Witness ==
    /\ ~ keep_original /\ pc = "next" /\ Len(drawn) = 3
    /\ drawn[1].op = "insert_htmlbox" /\ drawn[2].op = "draw_rect"
    /\ drawn[3].op = "insert_textbox"

\* a save has been attempted: it succeeded or it raised
SavePerformed == saved >= 1 \/ exc = "SaveError"

\* C11: translate_pdf saves the output at most once, and only after every page has
\* been processed and its sync_cache has run; in a run in which an exception was
\* raised before that, no save is attempted, and a run that ends by an exception has
\* saved nothing.
C11_NoPartialSave ==
    /\ saved <= 1
    /\ SavePerformed =>
         /\ page_index = num_pages
         /\ \A p \in 0..(num_pages - 1) : sync_calls[p] = 1
         /\ blocks = << >>
    /\ (exc # None /\ exc # "SaveError") => saved = 0
    /\ pc \in {"except", "raised"} => saved = 0

\* a document of two pages has been saved after the sync of its second page
C11_Witness ==
    /\ pc = "done" /\ saved = 1
    /\ num_pages = 2 /\ page_index = 2
    /\ sync_calls[1] = 1

\* C12: a request of the openai translator whose prompt has more tokens than the
\* model's context size is not submitted to the backend, and the call gives no
\* translation for the text.
C12_OversizeNotSubmitted ==
    (/\ last_call # << >> /\ last_call[1].invoked
     /\ translator = "openai"
     /\ last_call[1].request_tokens > model_context_size(environ[1])) =>
        /\ ~ last_call[1].submitted
        /\ last_call[1].failed

\* C13: in a run in which the constructor of the openai translator read an
\* environment without the credential, the model or the base URL, it has raised the
\* configuration error: there is no translator instance and no page is processed.
C13_MissingConfigFailsConstruction ==
    (/\ pc \notin {"instance", "idle"}
     /\ environ # << >>
     /\ ~ (/\ environ[1].OPENAI_API_KEY
           /\ environ[1].OPENAI_API_MODEL
           /\ environ[1].OPENAI_API_BASE)) =>
        /\ translator = None
        /\ exc = "AssertionError"
        /\ pc \in {"except", "raised"}
        /\ num_pages = 0 /\ blocks = << >>

\* the translation differs from the text modulo case and surrounding whitespace
Differs(text, translation) ==
    str_lower(str_strip(text)) # str_lower(str_strip(translation))

\* the outcome of a block at the end of its processing, and of a backend translation
C14_BlockOutcome ==
    /\ pc = "next" =>
         LET cls == sanitize_text(block[1].text)
             valid == /\ cls.is_valid_text
                      /\ translated # << >>
                      /\ Differs(cls.text, translated[1])
         IN  /\ valid <=> (\E i \in 1..Len(drawn) : drawn[i].op = "draw_rect")
             /\ valid <=> attempts >= 1
             /\ valid => /\ fit_kwargs.rect = block[1].bbox
                         /\ fit_kwargs.buffer = translated[1]
             /\ ~ valid => drawn = << >>
             /\ ~ cls.is_valid_text =>
                  /\ last_call = << >>
                  /\ translated = << >>
                  /\ cls.text \notin written_on_page
    /\ (/\ pc \notin {"instance", "idle"} /\ close_calls = 0
        /\ last_call # << >> /\ last_call[1].invoked /\ ~ last_call[1].failed) =>
         dict_get(translation_cache, last_call[1].text) = last_call[1].ret

\* while the cache is not closed, an entry of the cache stays as it was stored
C14_CacheKept ==
    [][close_calls' = close_calls =>
         \A t \in DOMAIN translation_cache :
             t \in DOMAIN translation_cache' /\ translation_cache'[t] = translation_cache[t]]_vars

\* C14: at the end of a block's processing, the masking rectangle has been drawn and
\* the placement of the translation into the block's box attempted exactly when the
\* block was classified translatable and its prepared translation differs from the
\* text modulo case and surrounding whitespace; a block classified non-translatable
\* has caused no backend call, no cache entry and no drawing; the cache maps a text
\* the backend translated to the string the backend returned, and keeps it.
C14_EndToEnd == []C14_BlockOutcome /\ C14_CacheKept

\* a block translated by the backend: masked, its translation placed and cached
C14_Witness ==
    /\ pc = "next"
    /\ last_call # << >> /\ last_call[1].invoked /\ ~ last_call[1].failed
    /\ Len(drawn) >= 2 /\ drawn[Len(drawn)].op = "insert_textbox"
    /\ dict_get(translation_cache, BlockText) = translated[1]

\* the distinct texts of the translatable blocks analyze_pdf has visited
DistinctAnalyzed == {analyzed[i] : i \in 1..Len(analyzed)}

RECURSIVE SumTokens(_)
SumTokens(texts) ==
    IF texts = {} THEN 0
    ELSE LET t == CHOOSE x \in texts : TRUE
         IN  get_request_token_count(t) + SumTokens(texts \ {t})

MaxTokens(texts) ==
    IF texts = {} THEN 0
    ELSE CHOOSE m \in {get_request_token_count(t) : t \in texts} :
             \A t \in texts : get_request_token_count(t) <= m

\* what the counters of analyze_pdf have in common in the claim and its amendment
AnalysisTotals ==
    /\ last_call = << >> /\ \A t \in CacheTexts : call_log[t] = << >>
    /\ totals.total_requests = Cardinality(DistinctAnalyzed)
    /\ totals.cache_hits = Len(analyzed) - totals.total_requests
    /\ totals.total_request_tokens = SumTokens(DistinctAnalyzed)
    /\ totals.max_request_token_length = MaxTokens(DistinctAnalyzed)
    /\ DOMAIN translation_cache = DistinctAnalyzed

\* C15 (as stated): after analyze_pdf has visited any blocks, the backend has not been
\* invoked, total requests is the number of distinct translatable texts seen, cache
\* hits the number of translatable blocks minus total requests, total request tokens
\* the sum and max request token length the maximum of the token counts of those
\* texts, and the over-target count the number of those texts whose count exceeds the
\* caller-supplied threshold.
C15_AnalysisAccounting ==
    (pc \in {"an_page", "an_block", "done", "raised"} /\ token_target # << >>) =>
        /\ AnalysisTotals
        /\ totals.total_token_target_hits =
             Cardinality({t \in DistinctAnalyzed :
                            get_request_token_count(t) > token_target[1]})

\* C15 (amended): as C15, but the over-target count is the number of those texts whose
\* count exceeds the threshold when the threshold is positive and 0 when the
\* threshold is zero or negative; without a threshold (None) no translatable block
\* is counted: the analysis raises TypeError at the first one.
C15_AnalysisAccountingPositiveTarget ==
    pc \in {"an_page", "an_block", "done", "raised"} =>
        /\ AnalysisTotals
        /\ totals.total_token_target_hits =
             Cardinality({t \in DistinctAnalyzed :
                            /\ token_target # << >>
                            /\ token_target[1] > 0
                            /\ get_request_token_count(t) > token_target[1]})
        /\ token_target = << >> => analyzed = << >>
        /\ exc = "TypeError" => token_target = << >>

\* a text seen twice and a text over the target have been counted
C15_Witness ==
    /\ pc = "done" /\ token_target = << 1 >>
    /\ totals.cache_hits >= 1
    /\ totals.total_requests = 2
    /\ totals.total_token_target_hits = 1

\* the index of the '.' that starts the final file extension of a path: the last '.'
\* of its last component, when that component has a name before it; or 0
ExtensionStart(path) ==
    LET slashes == {i \in 1..Len(path) : path[i] = "/"}
        base == IF slashes = {} THEN 1
                ELSE (CHOOSE k \in slashes : \A i \in slashes : i <= k) + 1
        dots == {i \in base..Len(path) : path[i] = "." /\
                    \E j \in base..(i - 1) : path[j] # "."}
    IN  IF dots = {} THEN 0 ELSE CHOOSE k \in dots : \A i \in dots : i <= k

\* C16: for an input path with a file extension, the output path is the input path
\* with '-' and the target language inserted immediately before its final file
\* extension, the directory part, the base name and the extension as they were.
C16_LangBeforeExtension ==
    (output_file # << >> /\ ExtensionStart(input_file) > 0) =>
        LET k == ExtensionStart(input_file)
        IN  output_file = SubSeq(input_file, 1, k - 1) \o << "-", target_lang >>
                          \o SubSeq(input_file, k, Len(input_file))

\* C17: when insert_text_block has returned, it has emitted the 'Could not render
\* text' diagnostic exactly when its last render attempt overflowed, whatever the
\* starting font size, and it has made no render attempt after the diagnostic: no
\* attempt at a size of zero or less from a positive starting size.
C17_DiagnosticIffAbandoned ==
    fit_pc = "return" =>
        /\ diag >= 1 <=> last_render = "overflow"
        /\ diag <= 1
        /\ (diag >= 1 /\ start_fontsize.num > 0) => \A size \in rendered : size.num > 0

\* C18: the mask of a block is drawn before the translation is placed: with originals
\* kept it is one rectangle on the translated layer and nothing on the base or the
\* original layer; with originals discarded it is the copy of the original text on
\* the original layer, then the rectangle that clears the box on the base layer; the
\* translated text, when it is placed, comes after the mask.
C18_MaskBeforePlacement ==
    (pc \in {"place", "next"} /\ drawn # << >>) =>
        LET n == IF keep_original THEN 1 ELSE 2
        IN  /\ Len(drawn) \in {n, n + 1}
            /\ IF keep_original
               THEN drawn[1] = [op |-> "draw_rect", oc |-> "ocg_trans", text |-> << >>]
               ELSE /\ drawn[1] = [op |-> "insert_htmlbox", oc |-> "ocg_orig",
                                   text |-> BlockText]
                    /\ drawn[2] = [op |-> "draw_rect", oc |-> None, text |-> << >>]
            /\ Len(drawn) = n + 1 =>
                 drawn[n + 1] = [op |-> "insert_textbox", oc |-> "ocg_trans",
                                 text |-> translated[1]]
            /\ Len(drawn) = n => last_render # "fit"

\* originals are discarded: the copy and the cleared box are drawn, the translation
\* is not yet placed
C18_Witness ==
    /\ ~ keep_original /\ pc = "place" /\ fit_pc = "loop" /\ attempts = 0
    /\ Len(drawn) = 2
    /\ drawn[1].op = "insert_htmlbox" /\ drawn[2].op = "draw_rect"

\* C19: a run of translate_pdf that opened a durable cache store and has ended, by
\* saving the output or by an exception, has called close_cache exactly once and has
\* left the store closed.
C19_ClosedExactlyOnce ==
    (pc \in {"done", "raised"} /\ StoreWasOpened) =>
        /\ close_calls = 1
        /\ ~ store_open

\* C20: the (font_name, font_file) chosen for a block has either a font file that is
\* the catalog's entry of the font name, or no font file and the built-in 'helv' as
\* its name; and when a default font path was supplied, the catalog's entry of the
\* default font name is not null.
C20_FontPairConsistent ==
    /\ font_choice # << >> =>
         \/ /\ font_choice[1].font_file # None
            /\ font_choice[1].font_file = dict_get(usable_fonts, font_choice[1].font_name)
         \/ /\ font_choice[1].font_file = None
            /\ font_choice[1].font_name = FALLBACK_FONT_NAME
    /\ (font_block # "idle" /\ default_font_path # None) =>
         dict_get(usable_fonts, default_font_name) # None

\* a block whose font is embedded without a usable file gets 'helv' and no file
C20_Witness ==
    /\ font_choice # << >>
    /\ font_block \in DOMAIN usable_fonts /\ font_block # FALLBACK_FONT_NAME
    /\ usable_fonts[font_block] = None
    /\ font_choice[1] = [font_name |-> FALLBACK_FONT_NAME, font_file |-> None]

\* the page count of the merged main document
MainPageCount == IF main_document = << >> THEN 0 ELSE main_document[1]

\* C21: after any events of the dialog, the page items and the listbox have the same
\* length and the same page names in the same order; the page_index values of the
\* page items are a permutation of 0..N-1, N the page count of the merged main
\* document; and a completed drag from index i to index j has put the item that was at
\* i at j and left the other items, their order and all selected flags as they were.
C21_OrganizerConsistent ==
    /\ Len(page_items) = Len(page_listbox)
    /\ \A i \in 1..Len(page_items) : page_listbox[i].text = page_items[i].page_name
    /\ Len(page_items) = MainPageCount
    /\ {page_items[i].page_index : i \in 1..Len(page_items)} = 0..(MainPageCount - 1)
    /\ last_move # << >> =>
         LET from_index == last_move[1].from_index
             to_index == last_move[1].to_index
             before == last_move[1].before
         IN  /\ from_index \in 0..(Len(before) - 1)
             /\ to_index \in 0..(Len(before) - 1)
             /\ Len(page_items) = Len(before)
             /\ page_items[to_index + 1] = before[from_index + 1]
             /\ list_without(page_items, to_index) = list_without(before, from_index)

====
